---- MODULE Spec2Model ----
(***************************************************************************)
(* Proof-of-stake kernel validation (src/src/pos.cpp): stake modifier      *)
(* chaining, coinstake timestamp policy, the weighted kernel hash check,   *)
(* the chain membership walk, CheckProofOfStake, and the stake cache       *)
(* (CheckKernel / CacheKernel).                                            *)
(*                                                                         *)
(* 256-bit values (uint256 / arith_uint256) are modelled at a width of     *)
(* HashBits bits: every product is reduced modulo 2^HashBits exactly as    *)
(* arith_uint256 reduces modulo 2^256.                                     *)
(***************************************************************************)
EXTENDS Integers, Sequences, FiniteSets, TLC

VARIABLES
    params,   \* Params().GetConsensus(): the consensus parameters in force
    chain,    \* the block index: the CBlockIndex entries, in the order they were added
    coins,    \* the UTXO view (CCoinsViewCache): outpoint -> Coin or NoCoin
    cache,    \* std::map<COutPoint, CStakeCache>: outpoint -> entry or NoEntry
    tip,      \* the pindexPrev of the staking scan that owns the cache
    missed,   \* outpoints for which CacheKernel ran and inserted nothing
    ret       \* the call in progress: its name, arguments and results; NoCall between calls

vars == <<params, chain, coins, cache, tip, missed, ret>>

----------------------------------------------------------------------------
(* Bounds of the model.                                                    *)

HashBits == 4        \* width of the modelled uint256
MaxBlocks == 3       \* blocks in the block index
MaxConf == 2         \* nStakeMinConfirmations ranges over 0..MaxConf
MaxAmount == 3       \* coin amounts 0..MaxAmount (satoshis)
MaxTime == 3         \* timestamps 0..MaxTime in the kernel checks
MaxKernel == 1       \* kernel hashes 0..MaxKernel fed to ComputeStakeModifier
MaxFile == 1         \* block files 0..MaxFile
MaxPos == 2          \* data positions 0..MaxPos
MaxStamp == 9        \* timestamps 0..MaxStamp in the timestamp policy

Null == 0            \* nullptr (a CBlockIndex*, or a null pBlockTime)

RECURSIVE Pow2(_)
Pow2(n) == IF n = 0 THEN 1 ELSE 2 * Pow2(n - 1)

\* 2^HashBits: arith_uint256 arithmetic wraps at this modulus
Modulus == Pow2(HashBits)

\* Two outpoints: the coin a call is about, and another coin beside it
OutPoints == {1, 2}
Amounts == 0..MaxAmount
Times == 0..MaxTime

NoCoin == [found |-> FALSE]
NoEntry == [cached |-> FALSE]
NoCall == [op |-> "none"]

----------------------------------------------------------------------------
(* External primitives.                                                    *)

\* CHashWriter: ss << x1 << x2 ...; ss.GetHash().  A deterministic digest of
\* an ordered sequence, sensitive to the order of what was written.
RECURSIVE HashFrom(_, _)
HashFrom(h, s) ==
    IF s = <<>> THEN h
    ELSE HashFrom((5 * h + 3 * Head(s) + 1) % Modulus, Tail(s))

Hash(s) == HashFrom(Len(s), s)

\* nTimeTx & mask, on non-negative integers
RECURSIVE BitAnd(_, _)
BitAnd(a, b) ==
    IF a = 0 \/ b = 0 THEN 0
    ELSE (a % 2) * (b % 2) + 2 * BitAnd(a \div 2, b \div 2)

----------------------------------------------------------------------------
(* The block index.                                                        *)

Blocks == 1..Len(chain)

\* CBlockIndex::GetAncestor(height): null when height is above the block's
\* own height or negative, else the ancestor reached through pprev.
RECURSIVE GetAncestor(_, _)
GetAncestor(pindex, height) ==
    IF pindex = Null THEN Null
    ELSE IF height > chain[pindex].nHeight \/ height < 0 THEN Null
    ELSE IF chain[pindex].nHeight = height THEN pindex
    ELSE GetAncestor(chain[pindex].pprev, height)

\* A faulty variant of ComputeStakeModifier: the two values are written in the
\* opposite order (modifier, then kernel).
ComputeStakeModifierSwapped(pindexPrev, kernel) ==
    IF pindexPrev = Null THEN 0
    ELSE Hash(<<chain[pindexPrev].nStakeModifier, kernel>>)

\* uint256 ComputeStakeModifier(const CBlockIndex* pindexPrev, const uint256& kernel)
ComputeStakeModifier(pindexPrev, kernel) ==
    IF pindexPrev = Null THEN 0
    ELSE Hash(<<kernel, chain[pindexPrev].nStakeModifier>>)

\* A block is added to the index on top of the block pprev (the first block
\* has no parent); its stake modifier is computed from its kernel hash and its
\* parent.  A block index entry starts with no data on disk: nFile = 0,
\* nDataPos = 0.
AddBlock(pprev, kernel, nTime) ==
    /\ ret = NoCall
    /\ tip = Null
    /\ Len(chain) < MaxBlocks
    /\ IF chain = <<>> THEN pprev = Null ELSE pprev \in Blocks
    /\ chain' = Append(chain,
          [ nHeight        |-> IF pprev = Null THEN 0 ELSE chain[pprev].nHeight + 1,
            pprev          |-> pprev,
            nTime          |-> nTime,
            hashProof      |-> kernel,
            nStakeModifier |-> ComputeStakeModifier(pprev, kernel),
            nFile          |-> 0,
            nDataPos       |-> 0 ])
    /\ UNCHANGED <<params, coins, cache, tip, missed, ret>>

\* The k-th position handed out on disk: files are filled one after the
\* other, and block data never starts at offset 0 of a file.
DiskPos(k) == [nFile |-> (k - 1) \div MaxPos, nPos |-> ((k - 1) % MaxPos) + 1]

Written == {b \in Blocks : chain[b].nDataPos # 0}

\* The block's data is written to disk at the next free position.
WriteBlock(b) ==
    /\ ret = NoCall
    /\ b \in Blocks \ Written
    /\ LET pos == DiskPos(Cardinality(Written) + 1)
       IN /\ pos.nFile <= MaxFile
          /\ chain' = [chain EXCEPT ![b].nFile = pos.nFile, ![b].nDataPos = pos.nPos]
    /\ UNCHANGED <<params, coins, cache, tip, missed, ret>>

\* The call in progress returns to its caller.
Return ==
    /\ ret # NoCall
    /\ ret' = NoCall
    /\ UNCHANGED <<params, chain, coins, cache, tip, missed>>

----------------------------------------------------------------------------
(* IsConfirmedInNPrevBlocks                                                *)

\* A faulty variant of the walk: the window test is <= instead of <.
RECURSIVE WalkInclusive(_, _, _, _, _)
WalkInclusive(pindex, txindex, pindexFrom, nMaxDepth, nActualDepth) ==
    IF pindex # Null /\ chain[pindexFrom].nHeight - chain[pindex].nHeight <= nMaxDepth
    THEN IF chain[pindex].nDataPos = txindex.nPos /\ chain[pindex].nFile = txindex.nFile
         THEN [result |-> TRUE,
               nActualDepth |-> chain[pindexFrom].nHeight - chain[pindex].nHeight]
         ELSE WalkInclusive(chain[pindex].pprev, txindex, pindexFrom, nMaxDepth, nActualDepth)
    ELSE [result |-> FALSE, nActualDepth |-> nActualDepth]

\* The for loop of IsConfirmedInNPrevBlocks, from the block pindex on.
RECURSIVE Walk(_, _, _, _, _)
Walk(pindex, txindex, pindexFrom, nMaxDepth, nActualDepth) ==
    IF pindex # Null /\ chain[pindexFrom].nHeight - chain[pindex].nHeight < nMaxDepth
    THEN IF chain[pindex].nDataPos = txindex.nPos /\ chain[pindex].nFile = txindex.nFile
         THEN [result |-> TRUE,
               nActualDepth |-> chain[pindexFrom].nHeight - chain[pindex].nHeight]
         ELSE Walk(chain[pindex].pprev, txindex, pindexFrom, nMaxDepth, nActualDepth)
    ELSE [result |-> FALSE, nActualDepth |-> nActualDepth]

\* bool IsConfirmedInNPrevBlocks(txindex, pindexFrom, nMaxDepth, int& nActualDepth)
IsConfirmedInNPrevBlocks(txindex, pindexFrom, nMaxDepth, nActualDepth) ==
    Walk(pindexFrom, txindex, pindexFrom, nMaxDepth, nActualDepth)

CallIsConfirmedInNPrevBlocks(txindex, pindexFrom, nMaxDepth, nActualDepth) ==
    /\ ret = NoCall
    /\ pindexFrom \in Blocks
    /\ LET r == IsConfirmedInNPrevBlocks(txindex, pindexFrom, nMaxDepth, nActualDepth)
       IN ret' = [ op           |-> "IsConfirmedInNPrevBlocks",
                   txindex      |-> txindex,
                   pindexFrom   |-> pindexFrom,
                   nMaxDepth    |-> nMaxDepth,
                   depthBefore  |-> nActualDepth,
                   result       |-> r.result,
                   nActualDepth |-> r.nActualDepth ]
    /\ UNCHANGED <<params, chain, coins, cache, tip, missed>>

----------------------------------------------------------------------------
(* The block index on its own: blocks are added and written to disk, and   *)
(* the membership walk is called on them.                                  *)

DiskPositions == [nFile : 0..MaxFile, nPos : 0..MaxPos]

DefaultParams ==
    [nStakeMinConfirmations |-> 1, nProtocolV2Time |-> 0, nStakeTimestampMask |-> 1]

InitChain ==
    /\ params = DefaultParams
    /\ chain = <<>>
    /\ coins = [o \in OutPoints |-> NoCoin]
    /\ cache = [o \in OutPoints |-> NoEntry]
    /\ tip = Null
    /\ missed = {}
    /\ ret = NoCall

NextChain ==
    \/ AddBlock(Len(chain), 0, 1)
    \/ ret = NoCall /\ \E b \in Blocks : WriteBlock(b)
    \/ ret = NoCall /\ \E txindex \in DiskPositions, pindexFrom \in Blocks,
                          nMaxDepth \in 0..MaxBlocks :
          CallIsConfirmedInNPrevBlocks(txindex, pindexFrom, nMaxDepth, -1)
    \/ Return

SpecChain == InitChain /\ [][NextChain]_vars

\* The ancestors of pindexFrom (itself included) at most depth blocks back.
Ancestors(pindexFrom, depth) ==
    {b \in Blocks : b <= pindexFrom /\ pindexFrom - b <= depth}

Matching(txindex, S) ==
    {b \in S : chain[b].nFile = txindex.nFile /\ chain[b].nDataPos = txindex.nPos}

\* The blocks the walk may examine: depth 0 .. nMaxDepth - 1.
Window == Ancestors(ret.pindexFrom, ret.nMaxDepth - 1)

\* The match nearest to pindexFrom is found, with its depth; with no match in
\* the window the call fails and nActualDepth keeps its value.
WindowSearched ==
    LET hits == Matching(ret.txindex, Window)
    IN IF hits # {}
       THEN /\ ret.result
            /\ \E b \in hits :
                  /\ \A o \in hits : o <= b
                  /\ ret.nActualDepth = chain[ret.pindexFrom].nHeight - chain[b].nHeight
       ELSE ~ret.result /\ ret.nActualDepth = ret.depthBefore

OwnPosition == Matching(ret.txindex, {ret.pindexFrom}) # {}

\* C3 as stated: IsConfirmedInNPrevBlocks returns true with depth 0 whenever
\* the position is pindexFrom's own, for every nMaxDepth; otherwise the nearest
\* match in the window with its depth, or false with nActualDepth unchanged.
C3_AsStated ==
    ret.op = "IsConfirmedInNPrevBlocks" =>
        /\ OwnPosition => ret.result /\ ret.nActualDepth = 0
        /\ WindowSearched

\* C3 amended: the window is the nMaxDepth blocks at depth 0 .. nMaxDepth - 1;
\* a position equal to pindexFrom's own gives true with depth 0 when
\* nMaxDepth >= 1; a match in the window gives the nearest one with its depth;
\* no match in the window gives false with nActualDepth unchanged.
C3_Membership ==
    ret.op = "IsConfirmedInNPrevBlocks" =>
        /\ (ret.nMaxDepth >= 1 /\ OwnPosition) => ret.result /\ ret.nActualDepth = 0
        /\ WindowSearched

\* A call that skips a non-matching pindexFrom, finds a written ancestor at
\* depth 1 and stops there, with a further block still inside the window.
C3_Witness ==
    /\ ret.op = "IsConfirmedInNPrevBlocks"
    /\ ret.result /\ ret.nActualDepth = 1
    /\ ret.nMaxDepth >= 3 /\ ret.pindexFrom >= 3
    /\ ~OwnPosition

----------------------------------------------------------------------------
(* Stake modifier chaining: blocks are added with every kernel hash, on    *)
(* top of any block of the index (the index is a tree).                    *)

NextModifier ==
    \E pprev \in 0..Len(chain), kernel \in 0..MaxKernel, nTime \in Times :
        AddBlock(pprev, kernel, nTime)

SpecModifier == InitChain /\ [][NextModifier]_vars

\* C7: the block with no parent has the all-zero modifier, every other
\* block's modifier is Hash(its kernel hash, then its parent's modifier), and
\* blocks with the same kernel hash and the same parent modifier have the same
\* modifier.
C7_ModifierChained ==
    /\ \A b \in Blocks :
          IF chain[b].pprev = Null
          THEN chain[b].nStakeModifier = 0
          ELSE chain[b].nStakeModifier =
                  Hash(<<chain[b].hashProof, chain[chain[b].pprev].nStakeModifier>>)
    /\ \A b, c \in Blocks :
          (/\ chain[b].pprev # Null /\ chain[c].pprev # Null
           /\ chain[b].hashProof = chain[c].hashProof
           /\ chain[chain[b].pprev].nStakeModifier = chain[chain[c].pprev].nStakeModifier)
          => chain[b].nStakeModifier = chain[c].nStakeModifier

\* Two blocks with the same parent and kernel hash but different times, whose
\* modifier is neither zero nor their parent's.
C7_Witness ==
    \E b, c \in Blocks :
        /\ b # c
        /\ chain[b].pprev # Null /\ chain[b].pprev = chain[c].pprev
        /\ chain[b].hashProof = chain[c].hashProof
        /\ chain[b].nTime # chain[c].nTime
        /\ chain[b].nStakeModifier # 0
        /\ chain[b].nStakeModifier # chain[chain[b].pprev].nStakeModifier

----------------------------------------------------------------------------
(* Coinstake timestamp policy.                                             *)

\* Consensus::Params::IsProtocolV2(nTime): the granular protocol is in force
\* after the switchover time.
IsProtocolV2(nTime) == nTime > params.nProtocolV2Time

\* A faulty variant of CheckCoinStakeTimestamp: the mask is not applied under V2.
CheckCoinStakeTimestampNoMask(nTimeBlock, nTimeTx) ==
    nTimeBlock = nTimeTx

\* bool CheckCoinStakeTimestamp(int64_t nTimeBlock, int64_t nTimeTx)
CheckCoinStakeTimestamp(nTimeBlock, nTimeTx) ==
    IF IsProtocolV2(nTimeBlock)
    THEN (nTimeBlock = nTimeTx) /\ (BitAnd(nTimeTx, params.nStakeTimestampMask) = 0)
    ELSE nTimeBlock = nTimeTx

\* bool CheckStakeBlockTimestamp(int64_t nTimeBlock)
CheckStakeBlockTimestamp(nTimeBlock) ==
    CheckCoinStakeTimestamp(nTimeBlock, nTimeBlock)

CallCheckCoinStakeTimestamp(nTimeBlock, nTimeTx) ==
    /\ ret = NoCall
    /\ ret' = [ op         |-> "CheckCoinStakeTimestamp",
                nTimeBlock |-> nTimeBlock,
                nTimeTx    |-> nTimeTx,
                result     |-> CheckCoinStakeTimestamp(nTimeBlock, nTimeTx) ]
    /\ UNCHANGED <<params, chain, coins, cache, tip, missed>>

CallCheckStakeBlockTimestamp(nTimeBlock) ==
    /\ ret = NoCall
    /\ ret' = [ op         |-> "CheckStakeBlockTimestamp",
                nTimeBlock |-> nTimeBlock,
                nTimeTx    |-> nTimeBlock,
                result     |-> CheckStakeBlockTimestamp(nTimeBlock) ]
    /\ UNCHANGED <<params, chain, coins, cache, tip, missed>>

\* The consensus parameters a chain may be started with: the switchover time
\* lies inside the modelled timestamps, and the mask is all-ones low bits.
SwitchTimes == {MaxStamp \div 3, MaxStamp \div 2}
Masks == {1, 3}

InitTimestamp ==
    /\ params \in [ nStakeMinConfirmations : {1},
                    nProtocolV2Time        : SwitchTimes,
                    nStakeTimestampMask    : Masks ]
    /\ chain = <<>>
    /\ coins = [o \in OutPoints |-> NoCoin]
    /\ cache = [o \in OutPoints |-> NoEntry]
    /\ tip = Null
    /\ missed = {}
    /\ ret = NoCall

NextTimestamp ==
    \/ ret = NoCall /\ \E nTimeBlock \in 0..MaxStamp, nTimeTx \in 0..MaxStamp :
          CallCheckCoinStakeTimestamp(nTimeBlock, nTimeTx)
    \/ ret = NoCall /\ \E nTimeBlock \in 0..MaxStamp :
          CallCheckStakeBlockTimestamp(nTimeBlock)
    \/ Return

SpecTimestamp == InitTimestamp /\ [][NextTimestamp]_vars

\* Bit i of the non-negative integer n
Bit(n, i) == (n \div Pow2(i)) % 2

\* No bit of the mask is set in the timestamp.
Aligned(nTime, mask) ==
    \A i \in 0..MaxStamp : Bit(mask, i) = 1 => Bit(nTime, i) = 0

\* C6: under protocol V2 the timestamp check is true iff block and tx time are
\* equal and the tx time has no bit of nStakeTimestampMask set; before V2 it is
\* true iff the two times are equal; CheckStakeBlockTimestamp(t) is
\* CheckCoinStakeTimestamp(t, t).
C6_TimestampPolicy ==
    /\ ret.op \in {"CheckCoinStakeTimestamp", "CheckStakeBlockTimestamp"} =>
          ret.result =
             IF IsProtocolV2(ret.nTimeBlock)
             THEN ret.nTimeBlock = ret.nTimeTx
                  /\ Aligned(ret.nTimeTx, params.nStakeTimestampMask)
             ELSE ret.nTimeBlock = ret.nTimeTx
    /\ ret.op = "CheckStakeBlockTimestamp" =>
          ret.result = CheckCoinStakeTimestamp(ret.nTimeBlock, ret.nTimeBlock)

\* Under V2, equal block and tx times that are not aligned to the mask are
\* rejected.
C6_Witness ==
    /\ ret.op = "CheckCoinStakeTimestamp"
    /\ IsProtocolV2(ret.nTimeBlock)
    /\ ret.nTimeBlock = ret.nTimeTx
    /\ ~Aligned(ret.nTimeTx, params.nStakeTimestampMask)
    /\ ~ret.result

----------------------------------------------------------------------------
(* The kernel hash check.                                                  *)

\* COutPoint::GetHash() and GetN(): outpoint o is output GetN(o) of the
\* transaction GetHash(o).
GetHash(prevout) == (prevout + 1) \div 2
GetN(prevout) == (prevout + 1) % 2

\* The compact encoding at the model's width: a mantissa of two bits, a sign
\* bit above it, and the size above that (arith_uint256's is 23 bits, a
\* sign bit and a size in bytes).
CompactBits == 0..(8 * (HashBits + 3) - 1)

\* arith_uint256::SetCompact(nCompact, &fNegative, &fOverflow)
SetCompact(nCompact) ==
    LET nSize == nCompact \div 8
        nWord == nCompact % 4
        sign  == (nCompact \div 4) % 2
        value == IF nSize <= 2 THEN nWord \div Pow2(2 - nSize)
                               ELSE nWord * Pow2(nSize - 2)
    IN [ bnTarget  |-> value % Modulus,
         fNegative |-> nWord # 0 /\ sign = 1,
         fOverflow |-> nWord # 0 /\ (nSize > HashBits + 1
                                      \/ (nWord > 1 /\ nSize > HashBits)) ]

\* The hash of lines 97-100: modifier, creation time, outpoint hash, outpoint
\* index, candidate time.
KernelHash(pindexPrev, nBlockFromTime, prevout, nTime) ==
    Hash(<<chain[pindexPrev].nStakeModifier, nBlockFromTime,
           GetHash(prevout), GetN(prevout), nTime>>)

\* bool CheckStakeKernelHash(pindexPrev, nBits, nBlockFromTime, prevOutAmount, prevout, nTime)
CheckStakeKernelHash(pindexPrev, nBits, nBlockFromTime, prevOutAmount, prevout, nTime) ==
    IF nTime < nBlockFromTime THEN FALSE
    ELSE LET c == SetCompact(nBits)
         IN IF c.fNegative \/ c.fOverflow \/ c.bnTarget = 0 THEN FALSE
            ELSE IF prevOutAmount = 0 THEN FALSE
            ELSE LET bnTarget == (c.bnTarget * prevOutAmount) % Modulus
                     hashProofOfStake == KernelHash(pindexPrev, nBlockFromTime, prevout, nTime)
                 IN IF hashProofOfStake > bnTarget THEN FALSE ELSE TRUE

CallCheckStakeKernelHash(pindexPrev, nBits, nBlockFromTime, prevOutAmount, prevout, nTime) ==
    /\ ret = NoCall
    /\ pindexPrev \in Blocks
    /\ ret' = [ op             |-> "CheckStakeKernelHash",
                pindexPrev     |-> pindexPrev,
                nBits          |-> nBits,
                nBlockFromTime |-> nBlockFromTime,
                prevOutAmount  |-> prevOutAmount,
                prevout        |-> prevout,
                nTime          |-> nTime,
                result         |-> CheckStakeKernelHash(pindexPrev, nBits, nBlockFromTime,
                                                        prevOutAmount, prevout, nTime) ]
    /\ UNCHANGED <<params, chain, coins, cache, tip, missed>>

NextKernel ==
    \/ \E kernel \in 0..MaxKernel : AddBlock(Len(chain), kernel, 1)
    \/ ret = NoCall /\ \E pindexPrev \in Blocks, nBits \in CompactBits,
                          nBlockFromTime \in Times, prevOutAmount \in Amounts,
                          prevout \in OutPoints, nTime \in Times :
          CallCheckStakeKernelHash(pindexPrev, nBits, nBlockFromTime,
                                   prevOutAmount, prevout, nTime)
    \/ Return

SpecKernel == InitChain /\ [][NextKernel]_vars

\* The target the compact bits stand for, as an integer.
DecodedTarget(nBits) == SetCompact(nBits).bnTarget

ValidTarget(nBits) ==
    /\ ~SetCompact(nBits).fNegative
    /\ ~SetCompact(nBits).fOverflow
    /\ DecodedTarget(nBits) # 0

\* C8: CheckStakeKernelHash accepts iff the candidate time is not before the
\* creation time, the bits decode to a target that is not negative, not
\* overflowed and not zero, the amount is not zero, and the kernel hash is
\* <= target * amount.
C8_AcceptsIff ==
    ret.op = "CheckStakeKernelHash" =>
        ret.result =
           (/\ ret.nTime >= ret.nBlockFromTime
            /\ ValidTarget(ret.nBits)
            /\ ret.prevOutAmount # 0
            /\ KernelHash(ret.pindexPrev, ret.nBlockFromTime, ret.prevout, ret.nTime)
                  <= DecodedTarget(ret.nBits) * ret.prevOutAmount)

\* C8 wherever target * amount fits the width of the target: the same
\* equivalence, which then holds (a hash equal to the weighted target is
\* accepted, a zero amount is rejected).
C8_AcceptsIffNoOverflow ==
    (/\ ret.op = "CheckStakeKernelHash"
     /\ DecodedTarget(ret.nBits) * ret.prevOutAmount < Modulus)
    => ret.result =
           (/\ ret.nTime >= ret.nBlockFromTime
            /\ ValidTarget(ret.nBits)
            /\ ret.prevOutAmount # 0
            /\ KernelHash(ret.pindexPrev, ret.nBlockFromTime, ret.prevout, ret.nTime)
                  <= DecodedTarget(ret.nBits) * ret.prevOutAmount)

\* C9: a kernel accepted with a positive amount is accepted with every larger
\* amount, all other arguments being the same.
C9_WeightMonotone ==
    (ret.op = "CheckStakeKernelHash" /\ ret.result /\ ret.prevOutAmount > 0) =>
        \A larger \in Amounts :
            larger >= ret.prevOutAmount =>
                CheckStakeKernelHash(ret.pindexPrev, ret.nBits, ret.nBlockFromTime,
                                     larger, ret.prevout, ret.nTime)

----------------------------------------------------------------------------
(* The UTXO view.                                                          *)

\* A coin is created by the block at the tip of the index.
AddCoin(prevout, nValue, nTime) ==
    /\ ret = NoCall
    /\ tip = Null
    /\ chain # <<>>
    /\ ~coins[prevout].found
    /\ coins' = [coins EXCEPT ![prevout] =
                    [ found   |-> TRUE,
                      nHeight |-> Len(chain) - 1,
                      nTime   |-> nTime,
                      nValue  |-> nValue ]]
    /\ UNCHANGED <<params, chain, cache, tip, missed, ret>>

\* A coin is spent: the view no longer holds it.
SpendCoin(prevout) ==
    /\ ret = NoCall
    /\ tip = Null
    /\ coins[prevout].found
    /\ coins' = [coins EXCEPT ![prevout] = NoCoin]
    /\ UNCHANGED <<params, chain, cache, tip, missed, ret>>

\* CCoinsView viewDummy; CCoinsViewCache view(&viewDummy): a view backed by
\* the base CCoinsView, which holds no coin.
viewDummy == [o \in OutPoints |-> NoCoin]

\* view.GetCoin(prevout, coinPrev): the coin, with found = FALSE when the view
\* does not hold it unspent.
GetCoin(view, prevout) == view[prevout]

\* Coin::IsSpent()
IsSpent(coin) == ~coin.found

\* A faulty variant of the maturity test: <= instead of <.
ImmatureInclusive(pindexPrev, coinPrev) ==
    chain[pindexPrev].nHeight + 1 - coinPrev.nHeight <= params.nStakeMinConfirmations

\* pindexPrev->nHeight + 1 - coinPrev.nHeight < nStakeMinConfirmations
Immature(pindexPrev, coinPrev) ==
    chain[pindexPrev].nHeight + 1 - coinPrev.nHeight < params.nStakeMinConfirmations

----------------------------------------------------------------------------
(* CheckProofOfStake                                                       *)

\* The outcome of CheckProofOfStake: the value returned, the score given to
\* state.DoS, and whether VerifyScript and CheckStakeKernelHash were called.
Outcome(result, nDoS, verified, hashed) ==
    [result |-> result, nDoS |-> nDoS, verified |-> verified, hashed |-> hashed]

\* VerifyScript on input 0 of tx against the coin's scriptPubKey
VerifyScript(tx, coinPrev) == tx.scriptOK

\* bool CheckProofOfStake(pindexPrev, tx, nBits, nTimeBlock, view, state)
CheckProofOfStake(pindexPrev, tx, nBits, nTimeBlock, view) ==
    IF ~tx.fCoinStake THEN Outcome(FALSE, 0, FALSE, FALSE)
    ELSE LET coinPrev == GetCoin(view, tx.prevout)
         IN IF ~coinPrev.found THEN Outcome(FALSE, 100, FALSE, FALSE)
            ELSE IF Immature(pindexPrev, coinPrev) THEN Outcome(FALSE, 100, FALSE, FALSE)
            ELSE IF ~VerifyScript(tx, coinPrev) THEN Outcome(FALSE, 100, TRUE, FALSE)
            ELSE IF ~CheckStakeKernelHash(pindexPrev, nBits, coinPrev.nTime,
                                          coinPrev.nValue, tx.prevout, nTimeBlock)
                 THEN Outcome(FALSE, 1, TRUE, TRUE)
                 ELSE Outcome(TRUE, 0, TRUE, TRUE)

CallCheckProofOfStake(pindexPrev, tx, nBits, nTimeBlock) ==
    /\ ret = NoCall
    /\ pindexPrev \in Blocks
    /\ LET r == CheckProofOfStake(pindexPrev, tx, nBits, nTimeBlock, coins)
       IN ret' = [ op         |-> "CheckProofOfStake",
                   pindexPrev |-> pindexPrev,
                   tx         |-> tx,
                   nBits      |-> nBits,
                   nTimeBlock |-> nTimeBlock,
                   result     |-> r.result,
                   nDoS       |-> r.nDoS,
                   verified   |-> r.verified,
                   hashed     |-> r.hashed ]
    /\ UNCHANGED <<params, chain, coins, cache, tip, missed>>

\* The compact encoding of a size, a sign bit and a mantissa
Compact(nSize, sign, nWord) == 8 * nSize + 4 * sign + nWord

\* Difficulty bits of each kind: a zero target, the hardest target, a negative
\* one, an overflowed one, and two easy ones.
KernelBits ==
    { Compact(0, 0, 0), Compact(2, 0, 1), Compact(3, 1, 1),
      Compact(HashBits + 2, 0, 1), Compact(3, 0, 2), Compact(HashBits, 0, 3) }

Transactions == [fCoinStake : BOOLEAN, prevout : OutPoints, scriptOK : BOOLEAN]

MinConfs == 0..MaxConf

InitParams ==
    /\ params \in [ nStakeMinConfirmations : MinConfs,
                    nProtocolV2Time        : {0},
                    nStakeTimestampMask    : {1} ]
    /\ chain = <<>>
    /\ coins = [o \in OutPoints |-> NoCoin]
    /\ cache = [o \in OutPoints |-> NoEntry]
    /\ tip = Null
    /\ missed = {}
    /\ ret = NoCall

\* Blocks are added, coins of one outpoint come and go with every amount and
\* time, and coinstakes spending either outpoint are checked.
NextPoS ==
    \/ AddBlock(Len(chain), 0, 1)
    \/ \E nValue \in Amounts, nTime \in Times : AddCoin(1, nValue, nTime)
    \/ SpendCoin(1)
    \/ ret = NoCall /\ \E pindexPrev \in Blocks, tx \in Transactions,
                          nBits \in KernelBits, nTimeBlock \in Times :
          CallCheckProofOfStake(pindexPrev, tx, nBits, nTimeBlock)
    \/ Return

SpecPoS == InitParams /\ [][NextPoS]_vars

\* Confirmations of the coin of input 0 in the block after pindexPrev
Confirmations == chain[ret.pindexPrev].nHeight + 1 - coins[ret.tx.prevout].nHeight

\* C2: CheckProofOfStake accepts only if every check passes, and otherwise the
\* first failing check decides: not a coinstake (no score), coin of input 0
\* missing (100), fewer confirmations than the minimum (100, and neither the
\* script nor the kernel hash is evaluated), script failure (100), kernel hash
\* rejected (1).
C2_FirstFailureDecides ==
    ret.op = "CheckProofOfStake" =>
        IF ~ret.tx.fCoinStake
        THEN ~ret.result /\ ret.nDoS = 0 /\ ~ret.verified /\ ~ret.hashed
        ELSE IF ~coins[ret.tx.prevout].found
        THEN ~ret.result /\ ret.nDoS = 100 /\ ~ret.verified /\ ~ret.hashed
        ELSE IF Confirmations < params.nStakeMinConfirmations
        THEN ~ret.result /\ ret.nDoS = 100 /\ ~ret.verified /\ ~ret.hashed
        ELSE IF ~ret.tx.scriptOK
        THEN ~ret.result /\ ret.nDoS = 100 /\ ~ret.hashed
        ELSE IF ~CheckStakeKernelHash(ret.pindexPrev, ret.nBits,
                                      coins[ret.tx.prevout].nTime,
                                      coins[ret.tx.prevout].nValue,
                                      ret.tx.prevout, ret.nTimeBlock)
        THEN ~ret.result /\ ret.nDoS = 1
        ELSE ret.result /\ ret.nDoS = 0

\* A coinstake whose coin has exactly the minimum number of confirmations,
\* at least one, is accepted.
C2_Witness ==
    /\ ret.op = "CheckProofOfStake"
    /\ ret.result
    /\ params.nStakeMinConfirmations >= 1
    /\ Confirmations = params.nStakeMinConfirmations

----------------------------------------------------------------------------
(* The stake cache: CheckKernel and CacheKernel.                           *)

\* What CheckKernel hands back: the verdict, and *pBlockTime after the call.
Verdict(result, blockTime) == [result |-> result, blockTime |-> blockTime]

\* A faulty variant of the six-argument CheckKernel: on a cache miss it looks the coin
\* up in the node's UTXO view and goes on without the maturity test.
CheckKernelNoMaturity(pindexPrev, nBits, nTime, prevout, pBlockTime, blockTime, stakeCache) ==
    IF ~stakeCache[prevout].cached
    THEN LET coinPrev == GetCoin(coins, prevout)
         IN IF ~coinPrev.found THEN Verdict(FALSE, blockTime)
            ELSE LET blockFrom == GetAncestor(pindexPrev, coinPrev.nHeight)
                 IN IF blockFrom = Null THEN Verdict(FALSE, blockTime)
                    ELSE Verdict(CheckStakeKernelHash(pindexPrev, nBits,
                                    chain[blockFrom].nTime, coinPrev.nValue, prevout, nTime),
                                 blockTime)
    ELSE LET stake == stakeCache[prevout]
         IN Verdict(CheckStakeKernelHash(pindexPrev, nBits, stake.blockFromTime,
                                         stake.amount, prevout, nTime),
                    IF pBlockTime # Null THEN stake.blockFromTime ELSE blockTime)

\* bool CheckKernel(pindexPrev, nBits, nTime, prevout, pBlockTime, cache):
\* blockTime is what *pBlockTime holds before the call.
CheckKernelWithCache(pindexPrev, nBits, nTime, prevout, pBlockTime, blockTime, stakeCache) ==
    LET view == viewDummy
    IN IF ~stakeCache[prevout].cached
       THEN LET coinPrev == GetCoin(view, prevout)
            IN IF ~coinPrev.found THEN Verdict(FALSE, blockTime)
               ELSE IF Immature(pindexPrev, coinPrev) THEN Verdict(FALSE, blockTime)
               ELSE LET blockFrom == GetAncestor(pindexPrev, coinPrev.nHeight)
                    IN IF blockFrom = Null THEN Verdict(FALSE, blockTime)
                       ELSE IF IsSpent(coinPrev) THEN Verdict(FALSE, blockTime)
                       ELSE Verdict(CheckStakeKernelHash(pindexPrev, nBits,
                                       chain[blockFrom].nTime, coinPrev.nValue,
                                       prevout, nTime),
                                    blockTime)
       ELSE LET stake == stakeCache[prevout]
            IN Verdict(CheckStakeKernelHash(pindexPrev, nBits, stake.blockFromTime,
                                            stake.amount, prevout, nTime),
                       IF pBlockTime # Null THEN stake.blockFromTime ELSE blockTime)

\* bool CheckKernel(pindexPrev, nBits, nTimeBlock, prevout, pBlockTime): the
\* six-argument form on an empty temporary cache.
CheckKernel(pindexPrev, nBits, nTimeBlock, prevout, pBlockTime, blockTime) ==
    LET tmp == [o \in OutPoints |-> NoEntry]
    IN CheckKernelWithCache(pindexPrev, nBits, nTimeBlock, prevout, pBlockTime, blockTime, tmp)

\* A faulty variant of CacheKernel: no test for an entry already present; the entry
\* is assigned.
CacheKernelOverwrite(stakeCache, prevout, pindexPrev, view) ==
    LET coinPrev == GetCoin(view, prevout)
    IN IF ~coinPrev.found THEN stakeCache
       ELSE IF Immature(pindexPrev, coinPrev) THEN stakeCache
       ELSE LET blockFrom == GetAncestor(pindexPrev, coinPrev.nHeight)
            IN IF blockFrom = Null THEN stakeCache
               ELSE [stakeCache EXCEPT ![prevout] =
                        [ cached        |-> TRUE,
                          blockFromTime |-> chain[blockFrom].nTime,
                          amount        |-> coinPrev.nValue ]]

\* A faulty variant of CacheKernel: the entry holds the coin's own time instead of the
\* time of the block at its creation height.
CacheKernelCoinTime(stakeCache, prevout, pindexPrev, view) ==
    IF stakeCache[prevout].cached THEN stakeCache
    ELSE LET coinPrev == GetCoin(view, prevout)
         IN IF ~coinPrev.found THEN stakeCache
            ELSE IF Immature(pindexPrev, coinPrev) THEN stakeCache
            ELSE LET blockFrom == GetAncestor(pindexPrev, coinPrev.nHeight)
                 IN IF blockFrom = Null THEN stakeCache
                    ELSE [stakeCache EXCEPT ![prevout] =
                             [ cached        |-> TRUE,
                               blockFromTime |-> coinPrev.nTime,
                               amount        |-> coinPrev.nValue ]]

\* void CacheKernel(cache, prevout, pindexPrev, view): the cache after the call
CacheKernel(stakeCache, prevout, pindexPrev, view) ==
    IF stakeCache[prevout].cached THEN stakeCache
    ELSE LET coinPrev == GetCoin(view, prevout)
         IN IF ~coinPrev.found THEN stakeCache
            ELSE IF Immature(pindexPrev, coinPrev) THEN stakeCache
            ELSE LET blockFrom == GetAncestor(pindexPrev, coinPrev.nHeight)
                 IN IF blockFrom = Null THEN stakeCache
                    ELSE [stakeCache EXCEPT ![prevout] =
                             [ cached        |-> TRUE,
                               blockFromTime |-> chain[blockFrom].nTime,
                               amount        |-> coinPrev.nValue ]]

\* CacheKernel is called on the node's UTXO view.  A call made for the parent
\* block of the running scan that leaves the outpoint out is noted in missed.
CallCacheKernel(prevout, pindexPrev) ==
    /\ ret = NoCall
    /\ pindexPrev \in Blocks
    /\ cache' = CacheKernel(cache, prevout, pindexPrev, coins)
    /\ missed' = IF pindexPrev = tip /\ ~cache'[prevout].cached
                 THEN missed \cup {prevout} ELSE missed
    /\ ret' = [ op          |-> "CacheKernel",
                prevout     |-> prevout,
                pindexPrev  |-> pindexPrev,
                cacheBefore |-> cache ]
    /\ UNCHANGED <<params, chain, coins, tip>>

CallCheckKernelWithCache(pindexPrev, nBits, nTime, prevout, pBlockTime, blockTime) ==
    /\ ret = NoCall
    /\ pindexPrev \in Blocks
    /\ LET r == CheckKernelWithCache(pindexPrev, nBits, nTime, prevout,
                                     pBlockTime, blockTime, cache)
       IN ret' = [ op              |-> "CheckKernelWithCache",
                   pindexPrev      |-> pindexPrev,
                   nBits           |-> nBits,
                   nTime           |-> nTime,
                   prevout         |-> prevout,
                   pBlockTime      |-> pBlockTime,
                   blockTimeBefore |-> blockTime,
                   cacheBefore     |-> cache,
                   result          |-> r.result,
                   blockTime       |-> r.blockTime ]
    /\ UNCHANGED <<params, chain, coins, cache, tip, missed>>

CallCheckKernel(pindexPrev, nBits, nTimeBlock, prevout, pBlockTime, blockTime) ==
    /\ ret = NoCall
    /\ pindexPrev \in Blocks
    /\ LET r == CheckKernel(pindexPrev, nBits, nTimeBlock, prevout, pBlockTime, blockTime)
       IN ret' = [ op              |-> "CheckKernel",
                   pindexPrev      |-> pindexPrev,
                   nBits           |-> nBits,
                   nTime           |-> nTimeBlock,
                   prevout         |-> prevout,
                   pBlockTime      |-> pBlockTime,
                   blockTimeBefore |-> blockTime,
                   cacheBefore     |-> cache,
                   result          |-> r.result,
                   blockTime       |-> r.blockTime ]
    /\ UNCHANGED <<params, chain, coins, cache, tip, missed>>

\* The staking loop starts a scan on top of the block pindexPrev; the chain
\* and the UTXO view stay as they are while the scan runs.
StartScan(pindexPrev) ==
    /\ ret = NoCall
    /\ tip = Null
    /\ pindexPrev \in Blocks
    /\ tip' = pindexPrev
    /\ UNCHANGED <<params, chain, coins, cache, missed, ret>>

\* *pBlockTime before a call: a value no block time takes
Untouched == MaxBlocks + MaxTime + 1

Pointers == {Null, 1}

\* The easiest valid difficulty bits
EasyBits == Compact(HashBits, 0, 3)

\* Amounts of the coins of the cache specifications
CoinValues == 1..2

----------------------------------------------------------------------------
(* The cache over a changing chain and UTXO view: blocks are added, coins  *)
(* are created and spent, and CacheKernel and both forms of CheckKernel    *)
(* are called for any parent block.                                        *)

Next ==
    \/ AddBlock(Len(chain), 0, Len(chain) + 1)
    \/ \E prevout \in OutPoints, nValue \in CoinValues : AddCoin(prevout, nValue, 1)
    \/ \E prevout \in OutPoints : SpendCoin(prevout)
    \/ ret = NoCall /\ \E prevout \in OutPoints, pindexPrev \in Blocks :
          CallCacheKernel(prevout, pindexPrev)
    \/ ret = NoCall /\ \E pindexPrev \in Blocks, prevout \in OutPoints,
                          pBlockTime \in Pointers :
          CallCheckKernelWithCache(pindexPrev, EasyBits, MaxTime, prevout,
                                   pBlockTime, Untouched)
    \/ ret = NoCall /\ \E pindexPrev \in Blocks, prevout \in OutPoints,
                          pBlockTime \in Pointers :
          CallCheckKernel(pindexPrev, EasyBits, MaxTime, prevout, pBlockTime, Untouched)
    \/ Return

Spec == InitParams /\ [][Next]_vars

\* The entry CacheKernel derives for prevout under pindexPrev from the chain
\* and the view as they are now: the time of the block at the coin's creation
\* height and the coin's amount.
FreshEntry(prevout, pindexPrev) ==
    [ cached        |-> TRUE,
      blockFromTime |-> chain[coins[prevout].nHeight + 1].nTime,
      amount        |-> coins[prevout].nValue ]

\* The coin exists, has the minimum confirmations in the block after
\* pindexPrev, and pindexPrev has an ancestor at the coin's creation height.
Resolvable(prevout, pindexPrev) ==
    /\ coins[prevout].found
    /\ chain[pindexPrev].nHeight + 1 - coins[prevout].nHeight
          >= params.nStakeMinConfirmations
    /\ \E b \in Blocks :
          b <= pindexPrev /\ chain[b].nHeight = coins[prevout].nHeight

\* C4: an entry of the cache keeps its value in every step, whatever is called
\* and however the chain and the view change; no entry is removed; and a
\* CacheKernel call for an outpoint already present leaves the whole cache as
\* it was.
C4_WriteOnce ==
    [][ /\ \A o \in OutPoints : cache[o].cached => cache'[o] = cache[o]
        /\ (ret'.op = "CacheKernel" /\ ret = NoCall /\ cache[ret'.prevout].cached)
              => cache' = cache ]_vars

\* CacheKernel was called for an outpoint whose entry is not the one the
\* chain and the view would give now, and the entry stayed.
C4_Witness ==
    /\ ret.op = "CacheKernel"
    /\ ret.cacheBefore[ret.prevout].cached
    /\ Resolvable(ret.prevout, ret.pindexPrev)
    /\ cache[ret.prevout] # FreshEntry(ret.prevout, ret.pindexPrev)

C5_WitnessNoAncestor ==
    /\ ret.op = "CacheKernel"
    /\ ~ret.cacheBefore[ret.prevout].cached
    /\ coins[ret.prevout].found
    /\ ~Immature(ret.pindexPrev, coins[ret.prevout])
    /\ cache = ret.cacheBefore

----------------------------------------------------------------------------
(* One staking scan: the chain and the view are built, then the scan       *)
(* starts on a parent block and CacheKernel and both forms of CheckKernel  *)
(* are called for that block with every bits, time and outpoint.           *)

NextScan ==
    \/ AddBlock(Len(chain), 0, Len(chain) + 1)
    \/ \E prevout \in OutPoints, nValue \in CoinValues : AddCoin(prevout, nValue, 1)
    \/ \E prevout \in OutPoints : SpendCoin(prevout)
    \/ \E pindexPrev \in Blocks : StartScan(pindexPrev)
    \/ ret = NoCall /\ tip # Null /\ \E prevout \in OutPoints :
          CallCacheKernel(prevout, tip)
    \/ ret = NoCall /\ tip # Null /\ \E nBits \in KernelBits, nTime \in Times,
                                        prevout \in OutPoints, pBlockTime \in Pointers :
          CallCheckKernelWithCache(tip, nBits, nTime, prevout, pBlockTime, Untouched)
    \/ ret = NoCall /\ tip # Null /\ \E nBits \in KernelBits, nTime \in Times,
                                        prevout \in OutPoints :
          CallCheckKernel(tip, nBits, nTime, prevout, Null, Untouched)
    \/ Return

SpecScan == InitParams /\ [][NextScan]_vars

\* C1: with an entry that CacheKernel put in the cache for the coin, the
\* six-argument CheckKernel returns the verdict the five-argument CheckKernel
\* returns for the same parent block, bits, time and coin.
C1_CacheEquivalence ==
    (ret.op = "CheckKernelWithCache" /\ ret.cacheBefore[ret.prevout].cached) =>
        ret.result = CheckKernel(ret.pindexPrev, ret.nBits, ret.nTime, ret.prevout,
                                 ret.pBlockTime, ret.blockTimeBefore).result

\* C10: once CacheKernel has run for a coin under the scan's parent block and
\* inserted nothing, CheckKernel with that cache and that parent block rejects
\* the coin, for every bits and time, and leaves the cache and *pBlockTime as
\* they were.
C10_AbsentMeansRejected ==
    (ret.op = "CheckKernelWithCache" /\ ret.prevout \in missed /\ ret.pindexPrev = tip) =>
        /\ ~ret.result
        /\ ret.blockTime = ret.blockTimeBefore
        /\ cache = ret.cacheBefore
        /\ ~cache[ret.prevout].cached

\* CheckKernel, with a non-null pBlockTime and the easiest bits, is called for
\* a coin that the view holds with a positive amount, that is short of the
\* minimum confirmations and was left out by CacheKernel, while the
\* other outpoint is in the cache.
C10_Witness ==
    /\ ret.op = "CheckKernelWithCache"
    /\ ret.prevout \in missed
    /\ ret.pBlockTime # Null
    /\ ret.nBits = EasyBits
    /\ coins[ret.prevout].found /\ coins[ret.prevout].nValue = 1
    /\ coins[ret.prevout].nHeight <= chain[tip].nHeight
    /\ Immature(tip, coins[ret.prevout])
    /\ \E o \in OutPoints : cache[o].cached

====
